---- MODULE Spec2Model ----
(***************************************************************************)
(* PDF converter service (src/index.js): the POST /convert and             *)
(* POST /convert-raw handlers in their three backend variants              *)
(* (pdf-to-png-converter, pdfjs + canvas, pdf-poppler), the upload         *)
(* middleware in front of them and the scratch files of the pdf-poppler    *)
(* variant.  One deployment runs one variant; requests run concurrently    *)
(* and interleave at their await points.                                   *)
(***************************************************************************)
EXTENDS Integers, Sequences, FiniteSets, TLC

\* ------------------------------------------------------------------ bounds

\* Number of requests the service receives in one run.
MaxReq == 2

\* Number of requests in a run of a burst of conversions.
MaxBurst == 3

\* The step of the clock, in milliseconds.
TickMs == 15000

\* ------------------------------------------------------- program constants

\* fileSize: 10 * 1024 * 1024 and limit: '10mb'
MaxBytes == 10485760

\* TIMEOUT_MS: the time a caller gives a request, in milliseconds.
TimeoutMs == 30000

\* viewportScale: 2.0 (pdf-to-png-converter) and getViewport({ scale: 2.0 })
ViewportScale == 2

\* scale: 2048 (pdf-poppler, -scale-to)
PopplerScale == 2048

\* A page range that asks for every page of a two-page document.
PagesRangeAll == <<1, 2>>

\* pagesRange: [1]
PagesRange == <<1>>

\* pdf.getPage(1)
CanvasPage == 1

\* page: 1 (pdf-poppler)
PopplerPage == 1

\* ---------------------------------------------------------------- inputs

Variants == {"png", "canvas", "poppler"}

Routes == {"convert", "convert-raw"}

\* Values of the X-Correlation-Id request header; "" is the absent header.
Headers == {"", "a"}

\* The header values of a burst: two of them differ by a route's suffix.
BurstHeaders == {"", "a", "a-raw"}

\* What a client puts in the request: nothing, or one of these byte strings.
NoPayload == "none"

Documents == {"empty", "garbage", "d1", "d2", "z0", "big"}

Payloads == {NoPayload} \cup Documents

\* Buffer.length of a document.
ByteLength(d) ==
    CASE d = "empty" -> 0
      [] d = "garbage" -> 9
      [] d = "d1" -> 1200
      [] d = "d2" -> 2400
      [] d = "z0" -> 800
      [] d = "big" -> MaxBytes + 1

\* Whether the bytes parse as a PDF document.
Parses(d) == d \in {"d1", "d2", "z0", "big"}

\* Page count of a document that parses.
NumPages(d) ==
    CASE d = "d1" -> 1
      [] d = "d2" -> 2
      [] d = "z0" -> 0
      [] d = "big" -> 1
      [] OTHER -> 0

WellFormed(d) == d \in Documents /\ Parses(d) /\ NumPages(d) >= 1

\* The PNG a backend produces for one page of a document at one scale.
Render(d, page, scale) == [doc |-> d, page |-> page, scale |-> scale]

\* pngBuffer.length
PngLength(png) == ByteLength(png.doc) * 2 + png.page

\* ------------------------------------------------------------ middleware

\* A value that is absent (req.file, req.body of a request without one).
Undefined == [undefined |-> TRUE]

\* A Buffer holding the bytes of document d.
Buffer(d) == [bytes |-> d]

\* No size limit configured.
OverLimitOff(p) == FALSE

\* multer limits.fileSize and express.raw limit: a larger payload never
\* reaches the handler.
OverLimit(p) == p # NoPayload /\ ByteLength(p) > MaxBytes

\* upload.single('pdf') with memoryStorage: req.file of an accepted request.
UploadSingle(p) ==
    IF p = NoPayload THEN Undefined ELSE [buffer |-> Buffer(p)]

\* express.raw({ type: 'application/pdf' }): req.body of an accepted request.
RawBody(p) == IF p = NoPayload THEN Undefined ELSE Buffer(p)

\* Status of the framework's answer to a request its middleware refused
\* (multer's error carries no status, raw-body's carries 413).
RefusedStatus(route) == IF route = "convert" THEN 500 ELSE 413

\* ---------------------------------------------------------- handler parts

\* A handler that ignores the header.
CorrelationIdNoHeader(h) == "unknown"

\* req.headers['x-correlation-id'] || 'unknown'
CorrelationId(h) == IF h = "" THEN "unknown" ELSE h

\* The check without its `!req.file` half.
ConvertInvalidNoFileTest(file) ==
    IF file = Undefined THEN FALSE ELSE file.buffer = Undefined

\* if (!req.file || !req.file.buffer): a Buffer object is truthy whatever
\* its length.
ConvertInvalid(file) ==
    IF file = Undefined THEN TRUE ELSE file.buffer = Undefined

\* if (!req.body || req.body.length === 0)
RawInvalid(body) ==
    IF body = Undefined THEN TRUE ELSE ByteLength(body.bytes) = 0

Invalid(route, p) ==
    IF route = "convert" THEN ConvertInvalid(UploadSingle(p))
    ELSE RawInvalid(RawBody(p))

\* Date.now() - startTime: the value is not modelled, only that it is sent.
ProcessingTime == "ms"

\* res.status(400).json({ error, correlationId })
BadRequest(route, cid) ==
    [status |-> 400,
     json |-> [error |-> IF route = "convert" THEN "No PDF file provided"
                         ELSE "No PDF data provided",
               correlationId |-> cid]]

\* res.status(500).json({ error, message, correlationId, processingTimeMs })
ServerError(cid, message) ==
    [status |-> 500,
     json |-> [error |-> "PDF conversion failed",
               message |-> IF message = "" THEN "Unknown conversion error"
                           ELSE message,
               correlationId |-> cid,
               processingTimeMs |-> ProcessingTime]]

\* A success response that reports the image's length as the original size.
SuccessImageSizeOnly(cid, d, png) ==
    [status |-> 200,
     headers |-> [ContentType |-> "image/png",
                  ContentLength |-> ToString(PngLength(png)),
                  XProcessingTimeMs |-> ProcessingTime,
                  XCorrelationId |-> cid,
                  XOriginalSize |-> ToString(PngLength(png)),
                  XConvertedSize |-> ToString(PngLength(png))],
     body |-> png]

\* res.set({...}); res.send(pngBuffer)
Success(cid, d, png) ==
    [status |-> 200,
     headers |-> [ContentType |-> "image/png",
                  ContentLength |-> ToString(PngLength(png)),
                  XProcessingTimeMs |-> ProcessingTime,
                  XCorrelationId |-> cid,
                  XOriginalSize |-> ToString(ByteLength(d)),
                  XConvertedSize |-> ToString(PngLength(png))],
     body |-> png]

\* A try block that does not enclose the awaited backend call.
TryBlockAfterAwait ==
    {"write", "nopages", "read", "unlinkPdf", "unlinkPng", "rmdir"}

\* The statements of a handler that can throw (the file write, the awaited
\* backend call, the no-pages throw, the file read, the three removals of
\* the cleanup): its try block encloses them all.
TryBlock ==
    {"write", "convert", "nopages", "read", "unlinkPdf", "unlinkPng", "rmdir"}

\* The removals the pdf-poppler handlers put in a try block of their own,
\* whose catch only warns.
CleanupTryNone == {}

CleanupTry == {"unlinkPdf", "unlinkPng", "rmdir"}

\* ----------------------------------------------------------------- state

VARIABLES
    variant,    \* the backend variant this deployment runs
    req,        \* per request: its inputs, its position, its response
    files,      \* the files on disk: path -> content
    dirs,       \* the directories on disk under /tmp
    crashed,    \* an exception escaped a handler
    pdfjsLib    \* canvas variant: the module's `let pdfjsLib`

vars == <<variant, req, files, dirs, crashed, pdfjsLib>>

Reqs == DOMAIN req

NoResult == [kind |-> "none"]

NoResp == [status |-> 0]

Idle ==
    [pc |-> "idle", route |-> "", header |-> "", payload |-> NoPayload,
     calls |-> <<>>, result |-> NoResult, created |-> {}, cleanup |-> "",
     waited |-> 0, resp |-> NoResp]

Init ==
    /\ variant \in Variants
    /\ req = [r \in 1..MaxReq |-> Idle]
    /\ files = [p \in {} |-> ""]
    /\ dirs = {}
    /\ crashed = FALSE
    /\ pdfjsLib = Undefined

\* ------------------------------------------------------------- backends

Threw(message) == [kind |-> "throw", message |-> message]

\* The options both pdf-to-png-converter handlers pass to pdfToPng.
PngOptions ==
    [disableFontFace |-> FALSE, useSystemFonts |-> FALSE, enableXfa |-> FALSE,
     viewportScale |-> ViewportScale, pagesRange |-> PagesRange,
     strictPaging |-> FALSE]

\* The pages of range that document d has, in the order asked
\* (strictPaging: false skips the others).
RECURSIVE PagesOf(_, _, _)
PagesOf(d, range, scale) ==
    IF range = <<>> THEN <<>>
    ELSE LET rest == PagesOf(d, Tail(range), scale)
         IN IF Head(range) \in 1..NumPages(d)
            THEN <<[pageNumber |-> Head(range),
                    content |-> Render(d, Head(range), scale)]>> \o rest
            ELSE rest

\* pdfToPng(buffer, options): the promise's outcome.
PdfToPng(buffer, options) ==
    IF ~Parses(buffer.bytes) THEN Threw("Invalid PDF structure.")
    ELSE [kind |-> "pages",
          pages |-> PagesOf(buffer.bytes, options.pagesRange,
                            options.viewportScale)]

\* require('pdfjs-dist/legacy/build/pdf.js') with workerSrc = '' and
\* workerPort = null, as the load-th loading of the library.
Configured(load) == [workerSrc |-> "", workerPort |-> "null", load |-> load]

\* An initPdfJs without its `if (!pdfjsLib)` test.
InitPdfJsAlways(lib) ==
    Configured(IF lib = Undefined THEN 1 ELSE lib.load + 1)

\* initPdfJs(): the value of pdfjsLib after it, which it returns.
InitPdfJs(lib) == IF lib = Undefined THEN Configured(1) ELSE lib

\* What a call of convertPdfToPng did with the pdf.js objects: whether the
\* document was loaded, whether the page was obtained, and whether
\* page.cleanup() and pdf.destroy() were called.
Handles(loaded, page, cleanup, destroy) ==
    [loaded |-> loaded, page |-> page, cleanup |-> cleanup,
     destroy |-> destroy]

\* convertPdfToPng(pdfBuffer, correlationId): the promise's outcome.  The
\* two releases are the last statements before the return, so a throw
\* before them skips them.
ConvertPdfToPng(buffer) ==
    IF ~Parses(buffer.bytes)
    THEN Threw("Invalid PDF structure.") @@ Handles(FALSE, FALSE, FALSE, FALSE)
    ELSE IF NumPages(buffer.bytes) = 0
    THEN Threw("PDF has no pages") @@ Handles(TRUE, FALSE, FALSE, FALSE)
    ELSE [kind |-> "buffer",
          content |-> Render(buffer.bytes, CanvasPage, ViewportScale)]
           @@ Handles(TRUE, TRUE, TRUE, TRUE)

\* ------------------------------------------------- scratch paths (poppler)

\* A path is the sequence of its components under the root.
RouteSuffix(route) == IF route = "convert" THEN "" ELSE "-raw"

\* path.join('/tmp', `${correlationId}.pdf`), `${correlationId}-raw.pdf`
TempPdfPath(route, cid) == <<"tmp", cid \o RouteSuffix(route) \o ".pdf">>

\* path.join('/tmp', `output-${correlationId}`), `output-${correlationId}-raw`
TempOutputDir(route, cid) == <<"tmp", "output-" \o cid \o RouteSuffix(route)>>

\* path.join(tempOutputDir, 'page-1.png')
PngPath(dir) == Append(dir, "page-1.png")

\* The options both pdf-poppler handlers pass to pdf.convert.
PopplerOptions(dir) ==
    [format |-> "png", out_dir |-> dir, out_prefix |-> "page",
     page |-> PopplerPage, scale |-> PopplerScale, single_file |-> TRUE]

\* A path as the text the filesystem calls take and report.
RECURSIVE PathString(_)
PathString(path) ==
    IF path = <<>> THEN ""
    ELSE "/" \o Head(path) \o PathString(Tail(path))

\* error.message of a filesystem call on a path that does not exist.
Enoent(syscall, path) ==
    "ENOENT: no such file or directory, " \o syscall
      \o " '" \o PathString(path) \o "'"

\* The file the external renderer writes for one page.
OutputPath(options) ==
    Append(options.out_dir,
           options.out_prefix \o "-" \o ToString(options.page) \o "."
               \o options.format)

Put(f, path, content) ==
    [p \in DOMAIN f \cup {path} |-> IF p = path THEN content ELSE f[p]]

Remove(f, path) == [p \in DOMAIN f \ {path} |-> f[p]]

DirOf(path) == SubSeq(path, 1, Len(path) - 1)

EmptyDir(f, dir) == \A p \in DOMAIN f : DirOf(p) # dir

\* error.message of rmdirSync on a directory that still holds a file.
Enotempty(path) ==
    "ENOTEMPTY: directory not empty, rmdir '" \o PathString(path) \o "'"

\* unlinkSync(tempPdfPath); unlinkSync(pngPath); rmdirSync(dir): the disk
\* after it, the call that threw and its message.  The first call that
\* throws ends it.
Cleanup(f, ds, pdfPath, pngPath, dir) ==
    IF pdfPath \notin DOMAIN f
    THEN [files |-> f, dirs |-> ds, failed |-> "unlinkPdf",
          message |-> Enoent("unlink", pdfPath)]
    ELSE LET f1 == Remove(f, pdfPath)
         IN IF pngPath \notin DOMAIN f1
            THEN [files |-> f1, dirs |-> ds, failed |-> "unlinkPng",
                  message |-> Enoent("unlink", pngPath)]
            ELSE LET f2 == Remove(f1, pngPath)
                 IN IF dir \notin ds
                    THEN [files |-> f2, dirs |-> ds, failed |-> "rmdir",
                          message |-> Enoent("rmdir", dir)]
                    ELSE IF ~EmptyDir(f2, dir)
                    THEN [files |-> f2, dirs |-> ds, failed |-> "rmdir",
                          message |-> Enotempty(dir)]
                    ELSE [files |-> f2, dirs |-> ds \ {dir}, failed |-> "",
                          message |-> ""]

\* ---------------------------------------------------------------- actions

Arrives(r) ==
    /\ ~crashed
    /\ req[r].pc = "idle"
    /\ \A q \in Reqs : q < r => req[q].pc # "idle"

Received(route, h, p) ==
    [Idle EXCEPT !.route = route, !.header = h, !.payload = p]

\* A catch block that invokes the backend a second time when its first
\* call failed.
ThrownRetrying(rq, point, message) ==
    IF point = "convert" /\ Len(rq.calls) = 1
    THEN [rq EXCEPT !.pc = "await", !.calls = Append(@, @[1])]
    ELSE IF point \in TryBlock
    THEN [rq EXCEPT !.pc = "done",
                    !.resp = ServerError(CorrelationId(rq.header), message)]
    ELSE [rq EXCEPT !.pc = "lost"]

\* A throw at one of the handler's statements: the catch block answers 500
\* when the try block encloses the statement.
Thrown(rq, point, message) ==
    IF point \in TryBlock
    THEN [rq EXCEPT !.pc = "done",
                    !.resp = ServerError(CorrelationId(rq.header), message)]
    ELSE [rq EXCEPT !.pc = "lost"]

\* multer / express.raw refuse a payload over the limit: the handler does
\* not run and the framework answers.
Refuse(r, route, h, p) ==
    /\ Arrives(r)
    /\ OverLimit(p)
    /\ req' = [req EXCEPT ![r] =
                 [Received(route, h, p) EXCEPT
                    !.pc = "refused",
                    !.resp = [status |-> RefusedStatus(route)]]]
    /\ UNCHANGED <<variant, pdfjsLib, files, dirs, crashed>>

\* Either handler, any variant, up to the return of the 400 answer.
Reject(r, route, h, p) ==
    /\ Arrives(r)
    /\ ~OverLimit(p)
    /\ Invalid(route, p)
    /\ req' = [req EXCEPT ![r] =
                 [Received(route, h, p) EXCEPT
                    !.pc = "done",
                    !.resp = BadRequest(route, CorrelationId(h))]]
    /\ UNCHANGED <<variant, pdfjsLib, files, dirs, crashed>>

\* pdf-to-png-converter handlers up to `await pdfToPng(...)`.
StartPng(r, route, h, p) ==
    /\ variant = "png"
    /\ Arrives(r)
    /\ ~OverLimit(p)
    /\ ~Invalid(route, p)
    /\ req' = [req EXCEPT ![r] =
                 [Received(route, h, p) EXCEPT
                    !.pc = "await",
                    !.calls = <<[buffer |-> Buffer(p),
                                 options |-> PngOptions]>>]]
    /\ UNCHANGED <<variant, pdfjsLib, files, dirs, crashed>>

\* pdf-to-png-converter handlers from the await to the response: the
\* pdfToPng promise settles and the handler runs on to its answer.
FinishPng(r) ==
    /\ variant = "png"
    /\ req[r].pc = "await"
    /\ LET res == PdfToPng(req[r].calls[1].buffer, req[r].calls[1].options)
           rq == [req[r] EXCEPT !.result = res]
           next ==
             IF res.kind = "throw" THEN Thrown(rq, "convert", res.message)
             ELSE IF Len(res.pages) = 0
             THEN Thrown(rq, "nopages", "No pages converted from PDF")
             ELSE [rq EXCEPT
                     !.pc = "done",
                     !.resp = Success(CorrelationId(rq.header), rq.payload,
                                      res.pages[1].content)]
       IN /\ req' = [req EXCEPT ![r] = next]
          /\ crashed' = (crashed \/ next.pc = "lost")
    /\ UNCHANGED <<variant, pdfjsLib, files, dirs>>

\* pdfjs + canvas handlers up to `await convertPdfToPng(...)`, which runs
\* on to its `await initPdfJs()`: initPdfJs has no await of its own, so its
\* test and its assignments are done when the handler first yields.
StartCanvas(r, route, h, p) ==
    /\ variant = "canvas"
    /\ Arrives(r)
    /\ ~OverLimit(p)
    /\ ~Invalid(route, p)
    /\ req' = [req EXCEPT ![r] =
                 [Received(route, h, p) EXCEPT
                    !.pc = "await",
                    !.calls = <<[buffer |-> Buffer(p),
                                 pdfjs |-> InitPdfJs(pdfjsLib),
                                 options |-> [page |-> CanvasPage,
                                              scale |-> ViewportScale]]>>]]
    /\ pdfjsLib' = InitPdfJs(pdfjsLib)
    /\ UNCHANGED <<variant, files, dirs, crashed>>

\* pdfjs + canvas handlers from the await to the response: the
\* convertPdfToPng promise settles and the handler runs on to its answer.
FinishCanvas(r) ==
    /\ variant = "canvas"
    /\ req[r].pc = "await"
    /\ LET res == ConvertPdfToPng(req[r].calls[1].buffer)
           rq == [req[r] EXCEPT !.result = res]
           next ==
             IF res.kind = "throw" THEN Thrown(rq, "convert", res.message)
             ELSE [rq EXCEPT
                     !.pc = "done",
                     !.resp = Success(CorrelationId(rq.header), rq.payload,
                                      res.content)]
       IN /\ req' = [req EXCEPT ![r] = next]
          /\ crashed' = (crashed \/ next.pc = "lost")
    /\ UNCHANGED <<variant, pdfjsLib, files, dirs>>

\* pdf-poppler handlers up to `await pdf.convert(...)`: the payload is
\* written to the temporary file and the renderer is started on it.
StartPoppler(r, route, h, p) ==
    /\ variant = "poppler"
    /\ Arrives(r)
    /\ ~OverLimit(p)
    /\ ~Invalid(route, p)
    /\ LET cid == CorrelationId(h)
           tempPdfPath == TempPdfPath(route, cid)
           tempOutputDir == TempOutputDir(route, cid)
       IN /\ files' = Put(files, tempPdfPath, Buffer(p))
          /\ req' = [req EXCEPT ![r] =
                       [Received(route, h, p) EXCEPT
                          !.pc = "await",
                          !.created = {tempPdfPath},
                          !.calls = <<[file |-> tempPdfPath,
                                       options |->
                                         PopplerOptions(tempOutputDir)]>>]]
    /\ UNCHANGED <<variant, pdfjsLib, dirs, crashed>>

\* pdf.convert(file, options): the external renderer runs on whatever the
\* file holds when it runs, writes the page into out_dir, and the promise
\* settles.  The renderer is taken as the handler expects it: for a document
\* with the page asked it leaves out_dir/page-1.png and resolves to a
\* non-empty result, for a document without it it resolves to an empty one,
\* and it rejects when the file is missing or does not parse.
RunPoppler(r) ==
    /\ variant = "poppler"
    /\ req[r].pc = "await"
    /\ LET call == req[r].calls[1]
           o == call.options
           out == OutputPath(o)
       IN IF call.file \notin DOMAIN files
          THEN /\ req' = [req EXCEPT ![r].pc = "settled",
                                     ![r].result = Threw("Command failed")]
               /\ UNCHANGED <<files, dirs>>
          ELSE LET d == files[call.file].bytes
               IN IF ~Parses(d)
                  THEN /\ req' = [req EXCEPT
                                    ![r].pc = "settled",
                                    ![r].result = Threw("Command failed")]
                       /\ UNCHANGED <<files, dirs>>
                  ELSE IF o.page \notin 1..NumPages(d)
                  THEN /\ req' = [req EXCEPT
                                    ![r].pc = "settled",
                                    ![r].result = [kind |-> "pages",
                                                   pages |-> <<>>]]
                       /\ UNCHANGED <<files, dirs>>
                  ELSE /\ files' = Put(files, out, Render(d, o.page, o.scale))
                       /\ dirs' = dirs \cup {o.out_dir}
                       /\ req' = [req EXCEPT
                                    ![r].pc = "settled",
                                    ![r].created = @ \cup {o.out_dir, out},
                                    ![r].result = [kind |-> "pages",
                                                   pages |-> <<out>>]]
    /\ UNCHANGED <<variant, pdfjsLib, crashed>>

\* The renderer does as in RunPoppler for a document with the page asked,
\* and leaves one more file of its own in out_dir.
StrayName == "page-1.png.part"

RunPopplerStray(r) ==
    /\ variant = "poppler"
    /\ req[r].pc = "await"
    /\ LET call == req[r].calls[1]
           o == call.options
           out == OutputPath(o)
           stray == Append(o.out_dir, StrayName)
       IN /\ call.file \in DOMAIN files
          /\ LET d == files[call.file].bytes
             IN /\ Parses(d)
                /\ o.page \in 1..NumPages(d)
                /\ files' = Put(Put(files, out, Render(d, o.page, o.scale)),
                                stray, Render(d, o.page, o.scale))
                /\ dirs' = dirs \cup {o.out_dir}
                /\ req' = [req EXCEPT
                             ![r].pc = "settled",
                             ![r].created = @ \cup {o.out_dir, out, stray},
                             ![r].result = [kind |-> "pages",
                                            pages |-> <<out>>]]
    /\ UNCHANGED <<variant, pdfjsLib, crashed>>

\* pdf-poppler handlers from the await to the response: the result check,
\* the read of page-1.png, the cleanup and the answer.
FinishPoppler(r) ==
    /\ variant = "poppler"
    /\ req[r].pc = "settled"
    /\ LET rq == req[r]
           res == rq.result
           cid == CorrelationId(rq.header)
           tempPdfPath == TempPdfPath(rq.route, cid)
           tempOutputDir == TempOutputDir(rq.route, cid)
           pngPath == PngPath(tempOutputDir)
           failed ==
             IF res.kind = "throw" THEN Thrown(rq, "convert", res.message)
             ELSE IF Len(res.pages) = 0
             THEN Thrown(rq, "nopages", "No pages converted from PDF")
             ELSE Thrown(rq, "read", Enoent("open", pngPath))
           reads == res.kind = "pages" /\ Len(res.pages) > 0
                    /\ pngPath \in DOMAIN files
       IN IF reads
          THEN LET disk == Cleanup(files, dirs, tempPdfPath, pngPath,
                                   tempOutputDir)
                   answer ==
                     IF disk.failed = "" \/ disk.failed \in CleanupTry
                     THEN [rq EXCEPT !.pc = "done",
                                     !.resp = Success(cid, rq.payload,
                                                      files[pngPath])]
                     ELSE Thrown(rq, disk.failed, disk.message)
               IN /\ files' = disk.files
                  /\ dirs' = disk.dirs
                  /\ req' = [req EXCEPT
                               ![r] = [answer EXCEPT !.cleanup = disk.failed]]
                  /\ UNCHANGED crashed
          ELSE /\ req' = [req EXCEPT ![r] = failed]
               /\ crashed' = (crashed \/ failed.pc = "lost")
               /\ UNCHANGED <<files, dirs>>
    /\ UNCHANGED <<variant, pdfjsLib>>

Next ==
    \/ \E r \in 1..MaxReq, route \in Routes, h \in Headers, p \in Payloads :
         \/ Refuse(r, route, h, p)
         \/ Reject(r, route, h, p)
         \/ StartPng(r, route, h, p)
         \/ StartCanvas(r, route, h, p)
         \/ StartPoppler(r, route, h, p)
    \/ \E r \in 1..MaxReq :
         \/ FinishPng(r)
         \/ FinishCanvas(r)
         \/ RunPoppler(r)
         \/ FinishPoppler(r)

Spec == Init /\ [][Next]_vars

\* A burst of conversions: more requests, each with no payload, an
\* oversize one or a well-formed document.
BurstPayloads == {NoPayload, "big", "d1", "d2"}

BurstInit ==
    /\ variant \in Variants
    /\ req = [r \in 1..MaxBurst |-> Idle]
    /\ files = [p \in {} |-> ""]
    /\ dirs = {}
    /\ crashed = FALSE
    /\ pdfjsLib = Undefined

BurstNext ==
    \/ \E r \in 1..MaxBurst, route \in Routes, h \in BurstHeaders,
          p \in BurstPayloads :
         \/ Refuse(r, route, h, p)
         \/ Reject(r, route, h, p)
         \/ StartPng(r, route, h, p)
         \/ StartCanvas(r, route, h, p)
         \/ StartPoppler(r, route, h, p)
    \/ \E r \in 1..MaxBurst :
         \/ FinishPng(r)
         \/ FinishCanvas(r)
         \/ RunPoppler(r)
         \/ FinishPoppler(r)

BurstSpec == BurstInit /\ [][BurstNext]_vars

\* A backend call that is pending settles, and a continuation that is ready
\* runs: the event loop leaves neither waiting for ever.
Fairness ==
    \A r \in 1..MaxReq :
      /\ WF_vars(FinishPng(r))
      /\ WF_vars(FinishCanvas(r))
      /\ WF_vars(RunPoppler(r))
      /\ WF_vars(FinishPoppler(r))

\* The requests of a run under fairness: no payload, an oversize one, one
\* that does not parse, a document without pages and a one-page document.
FairPayloads == {NoPayload, "big", "garbage", "z0", "d1"}

FairNext ==
    \/ \E r \in 1..MaxReq, route \in Routes, h \in Headers,
          p \in FairPayloads :
         \/ Refuse(r, route, h, p)
         \/ Reject(r, route, h, p)
         \/ StartPng(r, route, h, p)
         \/ StartCanvas(r, route, h, p)
         \/ StartPoppler(r, route, h, p)
    \/ \E r \in 1..MaxReq :
         \/ FinishPng(r)
         \/ FinishCanvas(r)
         \/ RunPoppler(r)
         \/ FinishPoppler(r)

FairSpec == Init /\ [][FairNext]_vars /\ Fairness

\* Time passes while a handler awaits its backend call: the milliseconds the
\* call has been pending.  No handler holds a timer, so nothing else happens.
Tick(r) ==
    /\ req[r].pc = "await"
    /\ req[r].waited <= TimeoutMs
    /\ req' = [req EXCEPT ![r].waited = @ + TickMs]
    /\ UNCHANGED <<variant, pdfjsLib, files, dirs, crashed>>

TimedNext ==
    \/ Next
    \/ \E r \in 1..MaxReq : Tick(r)

TimedSpec == Init /\ [][TimedNext]_vars

\* The pdf-poppler variant alone, with a renderer that may leave a file of
\* its own in the output directory.
PartialInit ==
    /\ variant = "poppler"
    /\ req = [r \in 1..MaxReq |-> Idle]
    /\ files = [p \in {} |-> ""]
    /\ dirs = {}
    /\ crashed = FALSE
    /\ pdfjsLib = Undefined

PartialNext ==
    \/ \E r \in 1..MaxReq, route \in Routes, h \in Headers, p \in Payloads :
         \/ Refuse(r, route, h, p)
         \/ Reject(r, route, h, p)
         \/ StartPoppler(r, route, h, p)
    \/ \E r \in 1..MaxReq :
         \/ RunPoppler(r)
         \/ RunPopplerStray(r)
         \/ FinishPoppler(r)

PartialSpec == PartialInit /\ [][PartialNext]_vars

\* ---------------------------------------------------------------- claims

Arrived(r) == req[r].pc # "idle"

InFlight(r) == req[r].pc \in {"await", "settled"}

Answered(r) == req[r].pc \in {"done", "refused"}

Ok(r) == req[r].pc = "done" /\ req[r].resp.status = 200

OnDisk == DOMAIN files \cup dirs

\* The scratch paths a pdf-poppler handler assigned to its request.
ScratchPaths(r) == {req[r].calls[1].file, req[r].calls[1].options.out_dir}

\* The pages one backend call asks for.
PagesAsked(call) ==
    IF variant = "png"
    THEN {call.options.pagesRange[i] : i \in 1..Len(call.options.pagesRange)}
    ELSE {call.options.page}

ErrorKeys == {"error", "message", "correlationId", "processingTimeMs"}

\* C1: pdf-poppler variant: in the step in which a handler sends its
\* response, on the success path and on every failure path, none of the
\* scratch paths the request created is left on disk.
C1_ScratchGoneAtResponse ==
    [][\A r \in Reqs :
         (variant = "poppler" /\ req[r].pc # "done" /\ req'[r].pc = "done")
         => req'[r].created \cap (DOMAIN files' \cup dirs') = {}]_vars

\* C2: pdf-poppler variant: two requests in flight at the same time never
\* hold a scratch path in common.
C2_ScratchDisjoint ==
    \A r1 \in Reqs, r2 \in Reqs :
      (variant = "poppler" /\ r1 # r2 /\ InFlight(r1) /\ InFlight(r2))
      => ScratchPaths(r1) \cap ScratchPaths(r2) = {}

\* C3: when the requests received carry pairwise distinct correlation
\* identifiers and well-formed documents within the size limit, every
\* answered request got a 200 whose image renders its own document.
C3_DistinctIdsIndependent ==
    ( /\ \A r \in Reqs :
           Arrived(r) => /\ req[r].header # ""
                         /\ WellFormed(req[r].payload)
                         /\ ByteLength(req[r].payload) <= MaxBytes
      /\ \A r1 \in Reqs, r2 \in Reqs :
           (r1 # r2 /\ Arrived(r1) /\ Arrived(r2))
           => req[r1].header # req[r2].header )
    => \A r \in Reqs :
         Answered(r) => /\ req[r].resp.status = 200
                        /\ req[r].resp.body.doc = req[r].payload

\* C4: a zero-byte payload, on either route and in every variant, is
\* answered 400, never reaches the backend and creates no scratch path.
C4_EmptyRejected ==
    \A r \in Reqs :
      (Arrived(r) /\ req[r].payload = "empty")
      => /\ req[r].calls = <<>>
         /\ req[r].created = {}
         /\ req[r].pc = "done"
         /\ req[r].resp.status = 400

\* C5: a /convert request without a pdf field and a /convert-raw request
\* without a body are answered 400 with a JSON body whose error field is
\* non-empty, and the backend is not invoked.
C5_MissingPayload400 ==
    \A r \in Reqs :
      (Arrived(r) /\ req[r].payload = NoPayload)
      => /\ req[r].pc = "done"
         /\ req[r].resp.status = 400
         /\ "error" \in DOMAIN req[r].resp.json
         /\ req[r].resp.json.error # ""
         /\ req[r].calls = <<>>

C5_Witness ==
    \E r1 \in Reqs, r2 \in Reqs :
      /\ req[r1].route = "convert" /\ req[r2].route = "convert-raw"
      /\ req[r1].payload = NoPayload /\ req[r2].payload = NoPayload
      /\ req[r1].pc = "done" /\ req[r2].pc = "done"

\* C6: every backend call asks for page 1 and nothing else, and every 200
\* carries the image of page 1, whatever the page count of the document.
C6_OnlyFirstPage ==
    \A r \in Reqs :
      /\ \A i \in 1..Len(req[r].calls) : PagesAsked(req[r].calls[i]) = {1}
      /\ (variant = "png" /\ req[r].result.kind = "pages"
          /\ WellFormed(req[r].payload))
         => Len(req[r].result.pages) = 1
      /\ Ok(r) => req[r].resp.body.page = 1

C6_Witness ==
    \E r \in Reqs :
      /\ req[r].payload = "d2"
      /\ NumPages(req[r].payload) > 1
      /\ Ok(r)
      /\ req[r].resp.body = Render("d2", 1, req[r].resp.body.scale)

\* C7: a payload that does not parse ends in a 400 or 500 with a JSON
\* error body, and no exception escapes the handler.
C7_GarbageIsAnError ==
    \A r \in Reqs :
      (Arrived(r) /\ req[r].payload = "garbage")
      => /\ ~crashed
         /\ req[r].pc # "lost"
         /\ req[r].pc = "done"
            => /\ req[r].resp.status \in {400, 500}
               /\ "error" \in DOMAIN req[r].resp.json

\* C8: every failure response carries error, message, correlationId and
\* processingTimeMs.
C8_UniformFailureShape ==
    \A r \in Reqs :
      (Answered(r) /\ req[r].resp.status >= 400)
      => /\ "json" \in DOMAIN req[r].resp
         /\ DOMAIN req[r].resp.json = ErrorKeys

\* C9: a payload over 10 MiB is refused before the handler runs: no
\* backend call is made for it and no scratch path is created.
C9_OversizeRefused ==
    \A r \in Reqs :
      (Arrived(r) /\ req[r].payload # NoPayload
       /\ ByteLength(req[r].payload) > MaxBytes)
      => /\ req[r].pc = "refused"
         /\ req[r].calls = <<>>
         /\ req[r].created = {}

C9_Witness ==
    \E r1 \in Reqs, r2 \in Reqs :
      /\ req[r1].route = "convert" /\ req[r2].route = "convert-raw"
      /\ req[r1].payload = "big" /\ req[r2].payload = "big"
      /\ req[r1].pc = "refused" /\ req[r2].pc = "refused"

\* C10: a /convert and a /convert-raw request with the same document bytes
\* that both got a 200 got the same image body.
C10_RoutesAgree ==
    \A r1 \in Reqs, r2 \in Reqs :
      (Ok(r1) /\ Ok(r2) /\ req[r1].route = "convert"
       /\ req[r2].route = "convert-raw"
       /\ req[r1].payload = req[r2].payload)
      => req[r1].resp.body = req[r2].resp.body

\* C11: two requests with the same document bytes that both got a 200 got
\* the same image body, whatever else the service handled meanwhile.
C11_SameInputSameOutput ==
    \A r1 \in Reqs, r2 \in Reqs :
      (Ok(r1) /\ Ok(r2) /\ req[r1].payload = req[r2].payload)
      => req[r1].resp.body = req[r2].resp.body

Contains(text, part) ==
    \E i \in 1..(Len(text) - Len(part) + 1) :
      SubSeq(text, i, i + Len(part) - 1) = part

ScratchRoot == PathString(<<"tmp">>)

\* C12: the message of a failure response contains no path of the service's
\* filesystem.
C12_NoPathInMessage ==
    \A r \in Reqs :
      (Answered(r) /\ req[r].resp.status = 500 /\ req[r].pc = "done")
      => ~Contains(req[r].resp.json.message, ScratchRoot)

\* C13: in the pdf-poppler variant a request whose cleanup had a removal
\* that failed is answered 200 with the image all the same.
C13_CleanupFailureOnlyLogged ==
    \A r \in Reqs :
      req[r].cleanup # ""
      => /\ req[r].pc = "done"
         /\ req[r].resp.status = 200
         /\ PngLength(req[r].resp.body) > 0

\* A request answered 200 although rmdirSync failed on its output
\* directory.
C13_Witness ==
    \E r \in Reqs : Ok(r) /\ req[r].cleanup = "rmdir"

\* The correlation id a response carries, "" when it carries none.
CarriedId(resp) ==
    IF resp.status = 200 THEN resp.headers.XCorrelationId
    ELSE IF resp.status \in {400, 500} /\ "json" \in DOMAIN resp
    THEN resp.json.correlationId
    ELSE ""

\* C14: a response that carries a correlation id carries the value of the
\* request's X-Correlation-Id header, and "unknown" when the request has
\* none.
C14_CorrelationIdEchoed ==
    \A r \in Reqs :
      (req[r].pc = "done")
      => /\ req[r].header # "" => CarriedId(req[r].resp) = req[r].header
         /\ req[r].header = "" => CarriedId(req[r].resp) = "unknown"

\* A 200 that echoes the header and a 400 of a request without one.
C14_Witness ==
    \E r1 \in Reqs, r2 \in Reqs :
      /\ Ok(r1) /\ req[r1].header = "a"
      /\ req[r1].resp.headers.XCorrelationId = "a"
      /\ req[r2].pc = "done" /\ req[r2].resp.status = 400
      /\ req[r2].header = "" /\ req[r2].resp.json.correlationId = "unknown"

\* C15: in a 200 response X-Original-Size is the length of the submitted
\* document, X-Converted-Size and Content-Length are the length of the body,
\* the body is not empty and X-Processing-Time-Ms is present.
C15_SizeHeaders ==
    \A r \in Reqs :
      Ok(r)
      => LET resp == req[r].resp
         IN /\ resp.headers.XOriginalSize = ToString(ByteLength(req[r].payload))
            /\ resp.headers.XConvertedSize = ToString(PngLength(resp.body))
            /\ resp.headers.ContentLength = ToString(PngLength(resp.body))
            /\ PngLength(resp.body) > 0
            /\ "XProcessingTimeMs" \in DOMAIN resp.headers

\* A 200 for the two-page document on each route.
C15_Witness ==
    \E r1 \in Reqs, r2 \in Reqs :
      /\ Ok(r1) /\ req[r1].route = "convert" /\ req[r1].payload = "d2"
      /\ Ok(r2) /\ req[r2].route = "convert-raw" /\ req[r2].payload = "d2"
      /\ req[r1].resp.headers.XOriginalSize = ToString(ByteLength("d2"))

ZeroPages(p) == p \in Documents /\ Parses(p) /\ NumPages(p) = 0

EmptyResult(res) == res.kind = "pages" /\ Len(res.pages) = 0

\* C16: a request whose document has zero pages, or whose backend call gave
\* an empty result, is answered with a failure and never with 200.
C16_NoPagesFails ==
    \A r \in Reqs :
      (req[r].pc = "done"
         /\ (ZeroPages(req[r].payload) \/ EmptyResult(req[r].result)))
      => req[r].resp.status = 500

\* C17: the service stores no file: whatever requests it handles, the
\* filesystem stays as it was at the start, without files or directories of
\* the service.
C17_FilesystemUnchanged == OnDisk = {}

\* C18: a request whose backend call has been pending for longer than the
\* time budget has been answered, with a failure.
C18_TimeoutAnswered ==
    \A r \in Reqs :
      req[r].waited > TimeoutMs
      => req[r].pc = "done" /\ req[r].resp.status \notin {0, 200}

\* C19: when a pdf-poppler handler has run its cleanup and answers 200,
\* nothing of the request's scratch set is left: not the document file, not
\* the page file, not the output directory nor any file in it.
C19_CleanupRemovesAll ==
    [][\A r \in Reqs :
         (variant = "poppler" /\ req[r].pc # "done" /\ req'[r].pc = "done"
            /\ req'[r].resp.status = 200)
         => req'[r].created \cap (DOMAIN files' \cup dirs') = {}]_vars

\* C20: in the canvas variant a call of convertPdfToPng that loaded the
\* document has called pdf.destroy() when it ends, and one that obtained the
\* page has called page.cleanup(), whether it returned or threw.
C20_DocumentReleased ==
    \A r \in Reqs :
      (variant = "canvas" /\ req[r].result.kind \in {"throw", "buffer"})
      => /\ req[r].result.loaded => req[r].result.destroy
         /\ req[r].result.page => req[r].result.cleanup

\* The backend call of a request ended without an image: it threw, or it
\* gave no page.
BackendFailed(res) ==
    \/ res.kind = "throw"
    \/ res.kind = "pages" /\ Len(res.pages) = 0

\* C21: a request has at most one backend call, and one whose backend call
\* failed is not awaiting a backend again: it is answered 500, at once in
\* the in-memory variants and by the handler's next step in pdf-poppler.
C21_BackendCalledOnce ==
    \A r \in Reqs :
      /\ Len(req[r].calls) <= 1
      /\ BackendFailed(req[r].result)
         => /\ req[r].pc \in {"settled", "done"}
            /\ req[r].pc = "settled" => variant = "poppler"
            /\ req[r].pc = "done" => req[r].resp.status = 500

\* A request answered 500 after the one backend call it made threw.
C21_Witness ==
    \E r \in Reqs :
      /\ req[r].pc = "done" /\ req[r].resp.status = 500
      /\ req[r].result.kind = "throw"
      /\ Len(req[r].calls) = 1

\* The backend call of a request gave an image.
Rendered(res) ==
    \/ res.kind = "buffer"
    \/ res.kind = "pages" /\ Len(res.pages) >= 1

\* The 500 of a pdf-poppler request whose readFileSync(pngPath) threw.
ReadFailed(rq) ==
    IF variant = "poppler" /\ rq.resp.status = 500
    THEN rq.resp.json.message =
           Enoent("open", PngPath(TempOutputDir(rq.route,
                                                CorrelationId(rq.header))))
    ELSE FALSE

\* The status the claim gives a request that entered a handler.
StatusAsClaimed(rq) ==
    /\ rq.pc # "lost"
    /\ rq.pc = "done"
       => /\ rq.resp.status \in {200, 400, 500}
          /\ rq.resp.status = 400 <=> Invalid(rq.route, rq.payload)
          /\ rq.resp.status = 200 <=> (Rendered(rq.result) /\ ~ReadFailed(rq))

\* C22: a request that entered a handler is in time answered, once: the
\* answer is 400 exactly when validation rejected the payload, 200 exactly
\* when the backend gave an image and the output was read, 500 otherwise,
\* and an answered request is never answered again.
C22_ExactlyOneResponse ==
    /\ [](\A r \in 1..MaxReq : StatusAsClaimed(req[r]))
    /\ [][\A r \in 1..MaxReq :
            req[r].pc \in {"done", "refused"} => req'[r] = req[r]]_vars
    /\ \A r \in 1..MaxReq :
         (req[r].pc \in {"await", "settled"}) ~> (req[r].pc = "done")

\* One request answered 200, another answered 500 although its backend call
\* gave an image.
C22_Witness ==
    \E r1 \in Reqs, r2 \in Reqs :
      /\ Ok(r1)
      /\ req[r2].pc = "done" /\ req[r2].resp.status = 500
      /\ Rendered(req[r2].result)

\* C23: in the canvas variant pdfjsLib is unset or the first loading of the
\* library with the worker disabled, and every convertPdfToPng call got that
\* very handle from initPdfJs.
C23_PdfJsInitialisedOnce ==
    /\ pdfjsLib # Undefined => pdfjsLib = Configured(1)
    /\ \A r \in Reqs :
         (variant = "canvas" /\ req[r].calls # <<>>)
         => /\ pdfjsLib # Undefined
            /\ req[r].calls[1].pdfjs = pdfjsLib

\* Two canvas requests have called convertPdfToPng, the second while the
\* first was still pending.
C23_Witness ==
    /\ variant = "canvas"
    /\ pdfjsLib = Configured(1)
    /\ \E r1 \in Reqs, r2 \in Reqs :
         /\ r1 # r2
         /\ req[r1].pc = "await" /\ req[r1].calls # <<>>
         /\ req[r2].pc = "await" /\ req[r2].calls # <<>>

====
